---- MODULE Spec2Model ----
(***************************************************************************)
(* The diagnostics context of crates/interface/src/diagnostics/context.rs: *)
(* DiagCtxt (a Lock around DiagCtxtInner), its emission path and the       *)
(* builders that finalize against it.                                      *)
(***************************************************************************)
EXTENDS Integers, Sequences, FiniteSets, TLC

\* ------------------------------------------------------------------ bounds
\* Longest children list a builder accumulates before it is finalized.
MaxChildren == 1
\* Number of emit calls made on the context in one run.
MaxEmits == 2
\* Number of producer threads sharing the context.
NumThreads == 2
\* Longest children list in the runs that look at the order of children.
MaxSiblings == 2
\* Size of the hash space standing for u64 (the element type of emitted_diagnostics).
HashSpace == 4

\* ------------------------------------------------------------- data model
\* Level (super::Level): the closed set of severities.
Level == {"Fatal", "Error", "Warning", "Note", "Help", "OnceNote", "OnceHelp", "Allow"}

\* The levels a builder attaches as sub-diagnostics.
SubLevel == {"Note", "Help", "OnceNote", "OnceHelp"}

\* DiagnosticMessage: the text of a diagnostic. The emission path never reads
\* it (only the hash and the emitter do), so one text stands for all.
Messages == {"m"}

\* A sub-diagnostic: a levelled message attached to a parent.
SubDiagnostic == [level : SubLevel, message : Messages]

ChildSeqs == UNION {[1..n -> SubDiagnostic] : n \in 0..MaxChildren}

\* Diagnostic (super::Diagnostic): level, message, ordered children.
Diagnostic == [level : Level, message : Messages, children : ChildSeqs]

\* EmissionGuarantee markers of a builder, plus "Option" for a direct
\* DiagCtxt::emit_diagnostic call, which hands the Option back as it is.
ErrorGuaranteed == "ErrorGuaranteed"
Unit == "Unit"
FatalAbort == "FatalAbort"
EmissionGuarantee == {ErrorGuaranteed, Unit, FatalAbort}

\* u64, the type of a diagnostic's hash.
U64 == 0..(HashSpace - 1)

Threads == 1..NumThreads

\* Diagnostic::is_error / Level::is_error: the levels that count as errors.
is_error(level) == level \in {"Fatal", "Error"}

\* The `matches!(sub.level, Level::OnceNote | Level::OnceHelp)` test of retain_mut.
is_once(level) == level \in {"OnceNote", "OnceHelp"}

\* DiagCtxt::new: the state of a freshly constructed context.
new ==
    [emitter |-> 0,
     err_count |-> 0,
     deduplicated_err_count |-> 0,
     warn_count |-> 0,
     deduplicated_warn_count |-> 0,
     emitted_diagnostics |-> {},
     can_emit_warnings |-> TRUE]

\* Option<ErrorGuaranteed>, the return type of the emission path.
Some == "Some"
None == "None"

\* ------------------------------------------------------- DiagCtxtInner
\* A faulty variant of insert_diagnostic: the hash is recorded without being
\* tested, and every diagnostic is reported as not yet emitted.
insert_diagnostic_NoTest(self, hash) ==
    [already |-> FALSE,
     self |-> [self EXCEPT !.emitted_diagnostics = @ \cup {hash}]]

\* DiagCtxtInner::insert_diagnostic. `hash` is the value hash_one returned for
\* the diagnostic; the keys come from a RandomState::new() made inside this very
\* call, so the caller of this operator draws `hash` afresh on every call.
\* already: "Returns `true` if the diagnostic was already emitted."
insert_diagnostic(self, hash) ==
    [already |-> hash \in self.emitted_diagnostics,
     self |-> [self EXCEPT !.emitted_diagnostics = @ \cup {hash}]]

\* A faulty variant of bump_err_count: the increment is lost.
bump_err_count_Lost(self) == self

\* A faulty variant of bump_err_count: the error is counted twice.
bump_err_count_Twice(self) == [self EXCEPT !.err_count = @ + 2]

\* DiagCtxtInner::bump_err_count
bump_err_count(self) == [self EXCEPT !.err_count = @ + 1]

\* A faulty variant of bump_warn_count: the increment is lost.
bump_warn_count_Lost(self) == self

\* DiagCtxtInner::bump_warn_count
bump_warn_count(self) == [self EXCEPT !.warn_count = @ + 1]

\* A faulty variant of retain_mut: the children that are kept come out in
\* reverse order.
RECURSIVE retain_mut_Reversed(_, _, _, _)
retain_mut_Reversed(self, children, sub_hashes, i) ==
    IF i > Len(children)
    THEN [self |-> self, children |-> << >>]
    ELSE LET sub == children[i] IN
         IF ~is_once(sub.level)
         THEN LET rest == retain_mut_Reversed(self, children, sub_hashes, i + 1) IN
              [self |-> rest.self, children |-> rest.children \o <<sub>>]
         ELSE LET ins == insert_diagnostic(self, sub_hashes[i])
                  rest == retain_mut_Reversed(ins.self, children, sub_hashes, i + 1)
              IN  [self |-> rest.self,
                   children |-> IF ins.already THEN rest.children
                                ELSE rest.children \o <<sub>>]

\* The closure of `diagnostic.children.retain_mut(..)`, applied to the children
\* from index i on, in order: a child that is not Once* is kept; a Once* child
\* is inserted into the set with its own hash and kept iff it was not there.
RECURSIVE retain_mut(_, _, _, _)
retain_mut(self, children, sub_hashes, i) ==
    IF i > Len(children)
    THEN [self |-> self, children |-> << >>]
    ELSE LET sub == children[i] IN
         IF ~is_once(sub.level)
         THEN LET rest == retain_mut(self, children, sub_hashes, i + 1) IN
              [self |-> rest.self, children |-> <<sub>> \o rest.children]
         ELSE LET ins == insert_diagnostic(self, sub_hashes[i])
                  rest == retain_mut(ins.self, children, sub_hashes, i + 1)
              IN  [self |-> rest.self,
                   children |-> IF ins.already THEN rest.children
                                ELSE <<sub>> \o rest.children]

\* self.emitter.emit_diagnostic(diagnostic): the emitter is handed the
\* diagnostic. Of the emitter the model keeps how many diagnostics it was handed.
emitter_emit_diagnostic(self, diagnostic) ==
    [self EXCEPT !.emitter = @ + 1]

\* A faulty variant of emit_new: an error that is shown is not counted in
\* deduplicated_err_count.
emit_new_ErrorUncounted(self, diagnostic, sub_hashes) ==
    LET kept == retain_mut(self, diagnostic.children, sub_hashes, 1)
        trimmed == [diagnostic EXCEPT !.children = kept.children]
        shown == emitter_emit_diagnostic(kept.self, trimmed)
    IN  [self |-> IF trimmed.level = "Warning"
                  THEN [shown EXCEPT !.deduplicated_warn_count = @ + 1]
                  ELSE shown,
         diagnostic |-> trimmed]

\* The `if !already_emitted { .. }` block: trim the Once* children, call the
\* emitter, bump the matching deduplicated counter.
emit_new(self, diagnostic, sub_hashes) ==
    LET kept == retain_mut(self, diagnostic.children, sub_hashes, 1)
        trimmed == [diagnostic EXCEPT !.children = kept.children]
        shown == emitter_emit_diagnostic(kept.self, trimmed)
    IN  [self |-> IF is_error(trimmed.level)
                  THEN [shown EXCEPT !.deduplicated_err_count = @ + 1]
                  ELSE IF trimmed.level = "Warning"
                       THEN [shown EXCEPT !.deduplicated_warn_count = @ + 1]
                       ELSE shown,
         diagnostic |-> trimmed]

\* A faulty variant of emit_count: only Level::Error is given a token.
emit_count_ErrorOnly(self, diagnostic) ==
    IF diagnostic.level = "Error"
    THEN [self |-> bump_err_count(self), ret |-> Some]
    ELSE [self |-> bump_warn_count(self), ret |-> None]

\* A faulty variant of emit_count: a Warning is given a token too.
emit_count_WarningToken(self, diagnostic) ==
    IF is_error(diagnostic.level)
    THEN [self |-> bump_err_count(self), ret |-> Some]
    ELSE [self |-> bump_warn_count(self),
          ret |-> IF diagnostic.level = "Warning" THEN Some ELSE None]

\* The tail of the emission path: count the diagnostic and make the result.
emit_count(self, diagnostic) ==
    IF is_error(diagnostic.level)
    THEN [self |-> bump_err_count(self), ret |-> Some]
    ELSE [self |-> bump_warn_count(self), ret |-> None]

\* A faulty variant of suppressed: the can_emit_warnings gate is missing.
suppressed_NoWarningGate(self, diagnostic) ==
    diagnostic.level = "Allow"

\* A faulty variant of suppressed: Level::Allow is not dropped.
suppressed_NoAllow(self, diagnostic) ==
    diagnostic.level = "Warning" /\ ~self.can_emit_warnings

\* The two early returns of the emission path: a Warning while warnings are
\* disabled, and an Allow.
suppressed(self, diagnostic) ==
    \/ diagnostic.level = "Warning" /\ ~self.can_emit_warnings
    \/ diagnostic.level = "Allow"

\* DiagCtxtInner::emit_diagnostic_without_consuming. Gives the context after
\* the call, the diagnostic as the call left it (it is taken by &mut), the
\* returned Option and whether the emitter was called.
emit_diagnostic_without_consuming(self, diagnostic, hash, sub_hashes) ==
    IF suppressed(self, diagnostic)
    THEN [self |-> self, diagnostic |-> diagnostic, ret |-> None, rendered |-> FALSE]
    ELSE LET ins == insert_diagnostic(self, hash)
             already_emitted == ins.already
             new_ == IF ~already_emitted
                     THEN emit_new(ins.self, diagnostic, sub_hashes)
                     ELSE [self |-> ins.self, diagnostic |-> diagnostic]
             counted == emit_count(new_.self, new_.diagnostic)
         IN  [self |-> counted.self, diagnostic |-> new_.diagnostic,
              ret |-> counted.ret, rendered |-> ~already_emitted]

\* ------------------------------------------------------------ builders
\* DiagCtxt::diag::<G>(level, message): a builder at any level with any guarantee.
diag(guarantee, level) == [level |-> level, guarantee |-> guarantee]

\* DiagCtxt::fatal
fatal == diag(FatalAbort, "Fatal")

\* DiagCtxt::err
err == diag(ErrorGuaranteed, "Error")

\* DiagCtxt::warn
warn == diag(Unit, "Warning")

\* DiagCtxt::help
help == diag(Unit, "Help")

\* DiagCtxt::note
note == diag(Unit, "Note")

\* Every builder the context's constructors can make.
Builders ==
    {fatal, err, warn, help, note}
        \cup {diag(g, l) : g \in EmissionGuarantee, l \in Level}

\* DiagCtxt::emit_diagnostic(diagnostic): no builder; the Option goes to the caller.
Direct == "Option"

\* ------------------------------------------------------------ the system
VARIABLES
    inner,    \* DiagCtxt.inner: the DiagCtxtInner behind the Lock
    lock,     \* the thread holding the Lock, 0 when it is free
    pc,       \* where each producer thread stands
    built,    \* per thread: the builder (level, guarantee) its last call came from
    last,     \* the run of the emission path in flight: its argument and outcome
    prev,     \* the run before it, where the specification keeps one on record
    ncalls,   \* the number of emit calls begun on the context
    tokens,   \* the number of ErrorGuaranteed values the emission path has made
    error_emits  \* the number of runs of the emission path on an error-level diagnostic

vars == <<inner, lock, pc, built, last, prev, ncalls, tokens, error_emits>>

\* `lock` while no thread holds the Lock (sync::Lock: one holder at a time,
\* lock() waits until the Lock is free, whoever holds it).
Unlocked == 0

\* `last` and `prev` when no run of the emission path is on record.
NoCall == [thread |-> 0]

\* `built` of a thread that has no finished call.
NoBuilder == [level |-> "none", guarantee |-> "none"]

Init ==
    /\ inner = new
    /\ lock = Unlocked
    /\ pc = [t \in Threads |-> "idle"]
    /\ built = [t \in Threads |-> NoBuilder]
    /\ last = NoCall
    /\ prev = NoCall
    /\ ncalls = 0
    /\ tokens = 0
    /\ error_emits = 0

\* A faulty variant of disable_warnings: the call flips the flag.
disable_warnings_Toggle ==
    /\ \A t \in Threads : pc[t] \in {"idle", "unwound", "panicked"}
    /\ inner' = [inner EXCEPT !.can_emit_warnings = ~@]
    /\ UNCHANGED <<lock, pc, built, last, prev, ncalls, tokens, error_emits>>

\* DiagCtxt::disable_warnings(mut self): takes the context by value, so no
\* thread is inside a call on it.
disable_warnings ==
    /\ \A t \in Threads : pc[t] \in {"idle", "unwound", "panicked"}
    /\ inner.can_emit_warnings
    /\ inner' = [inner EXCEPT !.can_emit_warnings = FALSE]
    /\ UNCHANGED <<lock, pc, built, last, prev, ncalls, tokens, error_emits>>

\* A producer calls DiagCtxt::emit_diagnostic_without_consuming (from a
\* builder's finalize, or through DiagCtxt::emit_diagnostic) and reaches
\* `self.inner.lock()`.
Call(t) ==
    /\ pc[t] = "idle"
    /\ ncalls < MaxEmits
    /\ ncalls' = ncalls + 1
    /\ pc' = [pc EXCEPT ![t] = "lock"]
    /\ built' = [built EXCEPT ![t] = NoBuilder]
    /\ UNCHANGED <<inner, lock, last, prev, tokens, error_emits>>

\* A faulty variant of Acquire: the Lock lets its holder in again.
Acquire_Reentrant(t) ==
    /\ pc[t] = "lock"
    /\ lock \in {Unlocked, t}
    /\ lock' = t
    /\ pc' = [pc EXCEPT ![t] = "emit"]
    /\ UNCHANGED <<inner, built, last, prev, ncalls, tokens, error_emits>>

\* `self.inner.lock()` returns the guard: the Lock was free.
Acquire(t) ==
    /\ pc[t] = "lock"
    /\ lock = Unlocked
    /\ lock' = t
    /\ pc' = [pc EXCEPT ![t] = "emit"]
    /\ UNCHANGED <<inner, built, last, prev, ncalls, tokens, error_emits>>

\* The positions of the Once* children of a diagnostic: the children that
\* retain_mut hashes.
OnceIdx(diagnostic) ==
    {i \in 1..Len(diagnostic.children) : is_once(diagnostic.children[i].level)}

\* The positions of the Once* children for which `sub_already_emitted` comes
\* out true when the closure of retain_mut reaches them: the child's hash is
\* in the set as it was before the run, or is the diagnostic's own, or that of
\* a Once* child before it.
sub_already_emitted(self, diagnostic, hash, sub_hashes) ==
    {i \in OnceIdx(diagnostic) :
        sub_hashes[i] \in
            self.emitted_diagnostics \cup {hash}
                \cup {sub_hashes[j] : j \in {k \in OnceIdx(diagnostic) : k < i}}}

\* The guarded DiagCtxtInner::emit_diagnostic_without_consuming runs on the
\* thread's diagnostic, one of D. The diagnostic is the thread's own until
\* here (a builder is never shared), so it is drawn where it is first read.
\* hash and sub_hashes are what hash_one gives under the RandomState::new() of
\* each insert_diagnostic call. The record of the run keeps the context as it
\* was before the run, the diagnostic as passed and as the run left it, and
\* the hash that insert_diagnostic computed for it, and the Once* children
\* whose hashes were found in the set. Each
\* `Some(ErrorGuaranteed(()))` the run makes is counted in `tokens`, each run
\* whose argument has an error level in `error_emits`.
EmitInner(t, D) ==
    /\ pc[t] = "emit"
    /\ lock = t
    /\ \E diagnostic \in D, hash \in U64 :
         \E sub_hashes \in [OnceIdx(diagnostic) -> U64] :
           LET r == emit_diagnostic_without_consuming(inner, diagnostic, hash, sub_hashes) IN
             /\ inner' = r.self
             /\ last' = [thread |-> t, diagnostic |-> diagnostic, before |-> inner,
                         hash |-> hash,
                         sub_seen |-> IF r.rendered
                                      THEN sub_already_emitted(inner, diagnostic,
                                                               hash, sub_hashes)
                                      ELSE {},
                         ret |-> r.ret, rendered |-> r.rendered,
                         forwarded |-> r.diagnostic,
                         overlap |-> \E u \in Threads : u # t /\ pc[u] = "lock"]
             /\ tokens' = tokens + (IF r.ret = Some THEN 1 ELSE 0)
             /\ error_emits' = error_emits + (IF is_error(diagnostic.level) THEN 1 ELSE 0)
    /\ pc' = [pc EXCEPT ![t] = "ret"]
    /\ UNCHANGED <<lock, built, prev, ncalls>>

\* A faulty variant of finalize_to: the proof-of-error finalize does not look
\* at the Option it was handed.
finalize_to_Unchecked(guarantee, ret) ==
    CASE guarantee = FatalAbort -> "unwound"
      [] OTHER -> "idle"

\* The emission path of a diagnostic found not yet emitted, up to and with the
\* call `self.emitter.emit_diagnostic(diagnostic)`.
emit_to_emitter(self, diagnostic, hash, sub_hashes) ==
    LET ins == insert_diagnostic(self, hash)
        kept == retain_mut(ins.self, diagnostic.children, sub_hashes, 1)
    IN  emitter_emit_diagnostic(kept.self,
                                [diagnostic EXCEPT !.children = kept.children])

\* The guarded emission path runs as far as the emitter, and the emitter,
\* while it renders the diagnostic, emits on the same context: the thread is
\* in a nested DiagCtxt::emit_diagnostic_without_consuming, at
\* `self.inner.lock()`, with the guard of the outer call still alive.
EmitterReenters(t, D) ==
    /\ pc[t] = "emit"
    /\ lock = t
    /\ \E diagnostic \in D, hash \in U64 :
         \E sub_hashes \in [OnceIdx(diagnostic) -> U64] :
           /\ ~suppressed(inner, diagnostic)
           /\ hash \notin inner.emitted_diagnostics
           /\ inner' = emit_to_emitter(inner, diagnostic, hash, sub_hashes)
    /\ pc' = [pc EXCEPT ![t] = "lock"]
    /\ UNCHANGED <<lock, built, last, prev, ncalls, tokens, error_emits>>

\* Where a finalize leaves its caller, by the builder's guarantee G:
\* ErrorGuaranteed takes the token out of the Option, () drops the Option,
\* FatalAbort unwinds to the recovery boundary once the emission path is back;
\* DiagCtxt::emit_diagnostic hands the Option to its caller.
finalize_to(guarantee, ret) ==
    CASE guarantee = FatalAbort -> "unwound"
      [] guarantee = ErrorGuaranteed -> IF ret = Some THEN "idle" ELSE "panicked"
      [] OTHER -> "idle"

\* The guard is dropped as the call's statement ends, and the Option goes back
\* to what made the call: the finalize of a builder with guarantee G, or the
\* caller of DiagCtxt::emit_diagnostic. The guarantee is the thread's own and
\* is drawn here, where it is first read. `keep` says whether the record of
\* the run stays on for the next run to be compared with.
Return(t, guarantee, keep) ==
    /\ pc[t] = "ret"
    /\ lock = t
    /\ guarantee = Direct \/ diag(guarantee, last.diagnostic.level) \in Builders
    /\ lock' = Unlocked
    /\ built' = [built EXCEPT ![t] = diag(guarantee, last.diagnostic.level)]
    /\ pc' = [pc EXCEPT ![t] = finalize_to(guarantee, last.ret)]
    /\ prev' = IF keep THEN last ELSE NoCall
    /\ last' = NoCall
    /\ UNCHANGED <<inner, ncalls, tokens, error_emits>>

\* The next-state relation for producer threads T emitting diagnostics of D.
NextOf(T, D, keep) ==
    \/ disable_warnings
    \/ \E t \in T : Call(t)
    \/ \E t \in T : Acquire(t)
    \/ \E t \in T : EmitInner(t, D)
    \/ \E t \in T, g \in EmissionGuarantee \cup {Direct} : Return(t, g, keep)

\* The producer that runs alone in Spec and SpecHist.
Main == {t \in Threads : t = 1}

\* One producer, every diagnostic: emits on one context one after the other.
Next == NextOf(Main, Diagnostic, FALSE)

Spec == Init /\ [][Next]_vars

\* As Spec, with the previous run kept on record beside the one in flight.
NextHist == NextOf(Main, Diagnostic, TRUE)

SpecHist == Init /\ [][NextHist]_vars

\* Diagnostics without children.
Childless == {d \in Diagnostic : d.children = << >>}

\* Every producer thread, diagnostics without children, the previous run kept.
NextConc == NextOf(Threads, Childless, TRUE)

SpecConc == Init /\ [][NextConc]_vars

\* Error diagnostics with up to MaxSiblings children.
Families ==
    [level : {"Error"}, message : Messages,
     children : UNION {[1..n -> SubDiagnostic] : n \in 0..MaxSiblings}]

\* One producer emitting diagnostics with several children.
NextSiblings == NextOf(Main, Families, FALSE)

SpecSiblings == Init /\ [][NextSiblings]_vars

\* A sample of the diagnostics: an error level, Warning and a level that is
\* neither, with children that retain_mut keeps as they are.
Sample ==
    {d \in Diagnostic :
        /\ d.level \in {"Error", "Warning", "Note"}
        /\ \A i \in 1..Len(d.children) : d.children[i].level \in {"Note", "Help"}}

\* One producer emitting diagnostics of the sample, the previous run kept.
NextDistinct == NextOf(Main, Sample, TRUE)

SpecDistinct == Init /\ [][NextDistinct]_vars

\* Errors and warnings without children.
Plain == {d \in Childless : d.level \in {"Error", "Warning"}}

\* Every producer thread, with an emitter that may emit on the context it
\* renders for.
NextReentrant ==
    \/ NextOf(Threads, Plain, FALSE)
    \/ \E t \in Threads : EmitterReenters(t, Plain)

SpecReentrant == Init /\ [][NextReentrant]_vars

\* ------------------------------------------------------------ properties
\* A run of the emission path has just taken place: its thread stands at the
\* return, `last` is the record of the run and `inner` the context after it.
Ran == last # NoCall

\* Two runs in a row are on record (SpecHist, SpecConc).
RanTwice == last # NoCall /\ prev # NoCall

\* The Once* children of a diagnostic, as a set of contents.
OnceChildren(diagnostic) ==
    {diagnostic.children[i] : i \in OnceIdx(diagnostic)}

\* The four counters of a context.
Counters(self) ==
    <<self.err_count, self.deduplicated_err_count,
      self.warn_count, self.deduplicated_warn_count>>

\* C1: a diagnostic of level Error, or Warning with warnings enabled, emitted
\* twice with the same level, message and children on a context that has shown
\* nothing before, raises the matching deduplicated counter by exactly 1, the
\* emitter's calls by exactly 1 and the matching total by 2.
C1_TwiceCountsOnce ==
    (/\ RanTwice
     /\ last.diagnostic = prev.diagnostic
     /\ prev.before.emitted_diagnostics = {}
     /\ prev.before.can_emit_warnings /\ last.before.can_emit_warnings
     /\ last.diagnostic.level \in {"Error", "Warning"})
    => /\ inner.emitter = prev.before.emitter + 1
       /\ last.diagnostic.level = "Error" =>
            /\ inner.deduplicated_err_count = prev.before.deduplicated_err_count + 1
            /\ inner.err_count = prev.before.err_count + 2
       /\ last.diagnostic.level = "Warning" =>
            /\ inner.deduplicated_warn_count = prev.before.deduplicated_warn_count + 1
            /\ inner.warn_count = prev.before.warn_count + 2

\* C2: in every reachable state the emission path returns a token exactly when
\* the diagnostic's level is Error or Fatal, whether or not the diagnostic was
\* rendered and whether or not warnings are enabled.
C2_TokenIffErrorLevel ==
    Ran => (last.ret = Some <=> last.diagnostic.level \in {"Error", "Fatal"})

\* C2's case: an Error that was a duplicate (not rendered), on a context with
\* warnings disabled, came back with a token.
C2_Witness ==
    /\ Ran
    /\ last.diagnostic.level = "Error"
    /\ ~last.rendered
    /\ ~last.before.can_emit_warnings
    /\ last.ret = Some

\* C3: with warnings disabled, emitting a Warning changes no counter, leaves
\* the emitted-hash set as it was, does not call the emitter and returns no
\* token: the whole context is as before.
C3_DisabledWarningIsDropped ==
    (Ran /\ last.diagnostic.level = "Warning" /\ ~last.before.can_emit_warnings)
    => /\ inner = last.before
       /\ last.ret = None
       /\ ~last.rendered

\* C3's case: a Warning emitted with warnings disabled, on a context that has
\* emitted something before.
C3_Witness ==
    /\ Ran
    /\ last.diagnostic.level = "Warning"
    /\ ~last.before.can_emit_warnings
    /\ last.before.emitted_diagnostics # {}

\* C4: emitting an Allow changes no counter, leaves the emitted-hash set as it
\* was, does not call the emitter and returns no token, whatever came before.
C4_AllowIsDropped ==
    (Ran /\ last.diagnostic.level = "Allow")
    => /\ inner = last.before
       /\ last.ret = None
       /\ ~last.rendered

\* C4's case: an Allow emitted with warnings enabled on a context that has
\* emitted something before.
C4_Witness ==
    /\ Ran
    /\ last.diagnostic.level = "Allow"
    /\ last.before.can_emit_warnings
    /\ last.before.emitted_diagnostics # {}

\* C5: a Once* child shown with one rendered diagnostic is not among the
\* children forwarded with the next rendered diagnostic: a given Once* content
\* reaches the emitter at most once.
C5_OnceChildShownOnce ==
    (RanTwice /\ prev.rendered /\ last.rendered)
    => OnceChildren(prev.forwarded) \cap OnceChildren(last.forwarded) = {}

\* The children of a diagnostic that are not among the contents in `seen`.
Without(children, seen) ==
    SelectSeq(children, LAMBDA sub : sub \notin seen)

\* C6: when a Once* child was shown under a first parent and a second,
\* structurally distinct parent that carries it is found not yet emitted, the
\* second parent is forwarded with exactly that child removed and counts as
\* first-seen; for two error-level parents on a fresh context that makes
\* err_count 2, deduplicated_err_count 2 and two emitter calls.
C6_SecondParentLosesShownChild ==
    (/\ RanTwice
     /\ prev.rendered /\ last.rendered
     /\ prev.before.emitted_diagnostics = {}
     /\ last.diagnostic # prev.diagnostic
     /\ OnceChildren(prev.forwarded) \cap OnceChildren(last.diagnostic) # {})
    => /\ last.forwarded =
            [last.diagnostic EXCEPT
                !.children = Without(@, OnceChildren(prev.forwarded))]
       /\ (is_error(prev.diagnostic.level) /\ is_error(last.diagnostic.level)) =>
            /\ inner.err_count = prev.before.err_count + 2
            /\ inner.deduplicated_err_count = prev.before.deduplicated_err_count + 2
            /\ inner.emitter = prev.before.emitter + 2

\* C7: emitting a diagnostic of level Note, Help, OnceNote or OnceHelp changes
\* none of the four counters.
C7_NoteLevelsCountNothing ==
    (Ran /\ last.diagnostic.level \in {"Note", "Help", "OnceNote", "OnceHelp"})
    => Counters(inner) = Counters(last.before)

\* C8: in every reachable state each deduplicated counter is at most its total.
C8_DedupAtMostTotal ==
    /\ inner.deduplicated_err_count <= inner.err_count
    /\ inner.deduplicated_warn_count <= inner.warn_count

\* C8's case: an error has been counted twice and shown once.
C8_Witness ==
    /\ inner.err_count = 2
    /\ inner.deduplicated_err_count = 1

\* At most one thread is inside the guarded emission path.
MutualExclusion ==
    \A t, u \in Threads :
        (pc[t] \in {"emit", "ret"} /\ pc[u] \in {"emit", "ret"}) => t = u

\* C9: emits of several threads on one context run one at a time, and two
\* threads that emit the same diagnostic concurrently (the second waiting for
\* the Lock while the first runs) on a context that has shown nothing give
\* one emitter call, a deduplicated count of 1 and a total of 2.
C9_ConcurrentTwiceCountsOnce ==
    /\ MutualExclusion
    /\ (/\ RanTwice
        /\ prev.thread # last.thread
        /\ prev.overlap
        /\ last.diagnostic = prev.diagnostic
        /\ last.diagnostic.level = "Error"
        /\ prev.before.emitted_diagnostics = {})
       => /\ inner.emitter = prev.before.emitter + 1
          /\ inner.deduplicated_err_count = prev.before.deduplicated_err_count + 1
          /\ inner.err_count = prev.before.err_count + 2

\* The emission path as a Fatal diagnostic goes through it: err_count goes up
\* by one and a token comes back; if the diagnostic was found new it is handed
\* to the emitter and counted as shown, otherwise neither.
FatalRunsEmissionPath ==
    (Ran /\ last.diagnostic.level = "Fatal")
    => /\ inner.err_count = last.before.err_count + 1
       /\ last.ret = Some
       /\ inner.emitter = last.before.emitter + (IF last.rendered THEN 1 ELSE 0)
       /\ inner.deduplicated_err_count =
            last.before.deduplicated_err_count + (IF last.rendered THEN 1 ELSE 0)

C11_GuaranteeFixesLevel ==
    \A t \in Threads :
        /\ built[t].guarantee = ErrorGuaranteed =>
              (built[t].level = "Error" /\ pc[t] # "panicked")
        /\ built[t].guarantee = FatalAbort => built[t].level = "Fatal"

\* C11, amended: the finalize of an ErrorGuaranteed builder gets a token from
\* the emission path exactly when the builder's level is Error or Fatal, which
\* is so for every builder made by err(); a builder that diag made with this
\* guarantee at another level gets `None`.
C11_ProofBuilderTokenIffErrorLevel ==
    \A t \in Threads :
        built[t].guarantee = ErrorGuaranteed =>
            /\ pc[t] = "panicked" <=> ~is_error(built[t].level)
            /\ built[t] = err => pc[t] = "idle"

\* C11's case: a builder made by err() was finalized, its diagnostic a
\* duplicate of one counted before, and the caller has the token.
C11_Witness ==
    \E t \in Threads :
        /\ built[t] = err
        /\ pc[t] = "idle"
        /\ inner.err_count = 2
        /\ inner.deduplicated_err_count = 1

\* C12: in every reachable state the number of tokens made so far equals
\* err_count; so a token exists only if an error-level diagnostic was emitted
\* on the context, and the two early returns (a Warning with warnings
\* disabled, an Allow) make no token.
C12_TokensEqualErrCount ==
    /\ tokens = inner.err_count
    /\ tokens > 0 => error_emits > 0
    /\ (Ran /\ suppressed(last.before, last.diagnostic)) =>
         (last.ret = None /\ inner.err_count = last.before.err_count)

\* C12's case: an early return was taken on a context that had made a token.
C12_Witness ==
    /\ Ran
    /\ suppressed(last.before, last.diagnostic)
    /\ tokens = 1

\* C13: after any sequence of emits err_count equals the number of emits made
\* with level Error or Fatal, duplicates included; so err_count > 0 exactly
\* when an error-level diagnostic has been emitted.
C13_ErrCountIsErrorEmits ==
    /\ inner.err_count = error_emits
    /\ inner.err_count > 0 <=> error_emits > 0

\* C13's case: two error-level emits, the second found already emitted.
C13_Witness ==
    /\ Ran
    /\ error_emits = 2
    /\ is_error(last.diagnostic.level)
    /\ ~last.rendered

\* The contents a run on a diagnostic hashes: the diagnostic itself and each
\* of its Once* children.
Contents(diagnostic) ==
    {diagnostic} \cup
        {[level |-> sub.level, message |-> sub.message, children |-> << >>] :
            sub \in OnceChildren(diagnostic)}

\* Two runs in a row, the first on a context that had recorded nothing, the
\* second on a diagnostic that differs in level, message or children from
\* everything the first one hashed, and that no early return drops.
DistinctAfter ==
    /\ RanTwice
    /\ prev.before.emitted_diagnostics = {}
    /\ last.diagnostic \notin Contents(prev.diagnostic)
    /\ ~suppressed(last.before, last.diagnostic)

\* The run on record handed its diagnostic to the emitter and counted it as
\* first-seen.
CountedFirstSeen ==
    /\ last.rendered
    /\ inner.emitter = last.before.emitter + 1
    /\ is_error(last.diagnostic.level) =>
         inner.deduplicated_err_count = last.before.deduplicated_err_count + 1
    /\ last.diagnostic.level = "Warning" =>
         inner.deduplicated_warn_count = last.before.deduplicated_warn_count + 1

\* C14 as stated: deduplication never suppresses a distinct diagnostic: after
\* one diagnostic was emitted, a diagnostic that differs from it in level,
\* message or children is still forwarded to the emitter and counted as
\* first-seen.
C14_DistinctNeverSuppressed ==
    DistinctAfter => CountedFirstSeen

\* C14, amended: a distinct diagnostic is forwarded and counted as first-seen
\* exactly when the hash computed for it is not one the set already holds; it
\* is suppressed when, and only when, its hash collides with a recorded one.
C14_DistinctSuppressedOnlyByCollision ==
    DistinctAfter =>
        IF last.hash \in last.before.emitted_diagnostics
        THEN ~last.rendered /\ inner.emitter = last.before.emitter
        ELSE CountedFirstSeen

\* C14's case: an error was emitted and shown, then a distinct error, whose
\* hash was new, was shown too.
C14_Witness ==
    /\ DistinctAfter
    /\ prev.rendered
    /\ is_error(prev.diagnostic.level) /\ is_error(last.diagnostic.level)
    /\ last.hash \notin last.before.emitted_diagnostics
    /\ inner.deduplicated_err_count = 2

\* C15: the emitter is never handed two diagnostics whose forwarded content
\* (the diagnostic after its Once* children were trimmed) is identical: a
\* diagnostic whose rendered content equals one already shown is not rendered
\* again.
C15_NoIdenticalForwarded ==
    (RanTwice /\ prev.rendered /\ last.rendered)
    => last.forwarded # prev.forwarded

\* The positions of the children the run on record has to keep: every child
\* that is not Once*, and every Once* child whose hash was not yet in the set.
KeptIdx ==
    {i \in 1..Len(last.diagnostic.children) :
        \/ ~is_once(last.diagnostic.children[i].level)
        \/ i \notin last.sub_seen}

\* C16: the children forwarded to the emitter are a subsequence of the
\* diagnostic's children in the same relative order: every Note/Help child is
\* kept, every Once* child found not yet seen (by the test-and-insert of its
\* hash) is kept, and only Once* children found already seen are removed.
C16_ForwardedChildrenInOrder ==
    Ran =>
        LET orig == last.diagnostic.children
            fwd == last.forwarded.children
        IN  IF last.rendered
            THEN \E f \in [1..Len(fwd) -> 1..Len(orig)] :
                    /\ \A k, l \in 1..Len(fwd) : k < l => f[k] < f[l]
                    /\ {f[k] : k \in 1..Len(fwd)} = KeptIdx
                    /\ \A k \in 1..Len(fwd) : fwd[k] = orig[f[k]]
            ELSE fwd = orig

\* C16's case: of two different children the first, a Once* child found
\* already seen, was removed and the second was forwarded.
C16_Witness ==
    /\ Ran /\ last.rendered
    /\ Len(last.diagnostic.children) = 2
    /\ last.diagnostic.children[1] # last.diagnostic.children[2]
    /\ last.forwarded.children = <<last.diagnostic.children[2]>>

\* A step in which the emission path runs: the record of a run appears.
EmitStep == last = NoCall /\ last' # NoCall

\* C17: a new context has warnings enabled; disable_warnings turns them off;
\* no emit of any level changes the flag, so once warnings are disabled they
\* stay disabled and every later Warning emit on the context is suppressed.
C17_WarningsStayDisabled ==
    /\ inner.can_emit_warnings
    /\ [][/\ EmitStep => inner'.can_emit_warnings = inner.can_emit_warnings
          /\ ~inner.can_emit_warnings => ~inner'.can_emit_warnings
          /\ (inner.can_emit_warnings /\ ~inner'.can_emit_warnings) =>
                (~EmitStep /\ inner' = [inner EXCEPT !.can_emit_warnings = FALSE])
          /\ (EmitStep /\ ~inner.can_emit_warnings
                       /\ last'.diagnostic.level = "Warning") =>
                (inner' = inner /\ last'.ret = None /\ ~last'.rendered)]_vars

\* C17's case: a Warning was counted while warnings were enabled, warnings
\* were then disabled, and a later Warning emit was suppressed.
C17_Witness ==
    /\ Ran
    /\ last.diagnostic.level = "Warning"
    /\ ~last.before.can_emit_warnings
    /\ last.before.warn_count = 1
    /\ last.before.deduplicated_warn_count = 1
    /\ inner = last.before

\* Thread t is inside the emitter of its own emit, in a nested emit that
\* waits for the Lock t itself holds.
Reentered(t) == pc[t] = "lock" /\ lock = t

\* C18: the Lock is held across the emitter call, so an emitter that emits on
\* the same context while it renders can never complete: the nested emit never
\* gets the Lock, the outer emit never returns and never releases it, no other
\* thread gets the Lock again, and when every thread has come to wait for it
\* nothing in the system can move.
C18_ReentrantEmitDeadlocks ==
    /\ [](\A t \in Threads :
            (Reentered(t) /\ \A u \in Threads : pc[u] = "lock")
            => ~ENABLED NextReentrant)
    /\ [][\A t \in Threads :
            Reentered(t) =>
                /\ Reentered(t)'
                /\ inner' = inner
                /\ \A u \in Threads : pc'[u] \notin {"emit", "ret"}]_vars

\* C18's case: the emitter of thread 1 re-entered the context after handing
\* over a diagnostic, and every other thread waits for the Lock as well.
C18_Witness ==
    /\ Reentered(1)
    /\ inner.emitter > 0
    /\ \A u \in Threads : pc[u] = "lock"

\* C19 as stated: in every reachable state err_count > 0 exactly when
\* deduplicated_err_count > 0: once an error has been counted, an error has
\* been forwarded to the emitter.
C19_CountedIffShown ==
    inner.err_count > 0 <=> inner.deduplicated_err_count > 0

\* C19, amended: deduplicated_err_count > 0 only if err_count > 0, and an
\* error whose hash is not one the set already holds is forwarded and counted
\* in both; err_count > 0 with deduplicated_err_count = 0 is left only by
\* errors whose hashes were all found in the set already.
C19_ShownUnlessHashCollides ==
    /\ inner.deduplicated_err_count > 0 => inner.err_count > 0
    /\ (Ran /\ is_error(last.diagnostic.level)) =>
         IF last.hash \in last.before.emitted_diagnostics
         THEN /\ inner.err_count = last.before.err_count + 1
              /\ inner.deduplicated_err_count = last.before.deduplicated_err_count
         ELSE /\ inner.err_count > 0
              /\ inner.deduplicated_err_count > 0
              /\ inner.emitter > 0

\* C19's case: the first error of a context that had shown a diagnostic of
\* another kind before; its hash was new and it was shown.
C19_Witness ==
    /\ Ran
    /\ is_error(last.diagnostic.level)
    /\ last.before.err_count = 0
    /\ last.before.emitted_diagnostics # {}
    /\ last.hash \notin last.before.emitted_diagnostics
    /\ inner.deduplicated_err_count = 1

====
